---- MODULE Spec2Model ----
(***************************************************************************)
(* Model of the exam engine of exam_engine.py: the in-memory store of exam *)
(* sessions (ExamEngine.active_sessions) and the operations on it.         *)
(***************************************************************************)
EXTENDS Integers, Sequences, FiniteSets, TLC

VARIABLES
    exams,            \* ExamEngine.exams: exam id -> Exam
    files,            \* the question files on disk: file name -> list of Question
    config,           \* ExamEngine.config
    active_sessions,  \* ExamEngine.active_sessions: session id -> ExamSession
    now,              \* datetime.now(), in minutes
    last,             \* the last call made on the engine: its arguments and what it returned
    pc,               \* per thread: where it stands inside submit_answer
    loc               \* per thread: the locals of its submit_answer call

vars == <<exams, files, config, active_sessions, now, last, pc, loc>>

----------------------------------------------------------------------------
(* Bounds of the model *)

\* the largest question_count a caller passes (the smallest is -1)
MaxCount == 4
\* the largest index a caller passes to navigate_to_question (the smallest is -1)
MaxIndex == 3
\* the resolution of the clock: now and start_time count ticks
TicksPerSecond == 2

----------------------------------------------------------------------------
(* Python values *)

\* Optional[...]: None is the empty set, a value v is {v}
None == {}
Some(v) == {v}
Val(o) == CHOOSE v \in o : TRUE

Min(a, b) == IF a <= b THEN a ELSE b
Max(a, b) == IF a >= b THEN a ELSE b

Range(s) == {s[i] : i \in DOMAIN s}

\* s[:n]
SliceTo(s, n) ==
    SubSeq(s, 1, IF n >= 0 THEN Min(n, Len(s)) ELSE Max(0, Len(s) + n))

\* the orders of the positions 1..n
Perms(n) == {p \in [1..n -> 1..n] : \A i, j \in 1..n : p[i] = p[j] => i = j}

----------------------------------------------------------------------------
(* The data the engine is constructed over *)

\* uuid.uuid4() draws from these
SessionIds == {"s1", "s2"}
\* the threads that call the engine at the same time
Threads == {"t1", "t2"}

\* models.Question (the fields the engine reads)
Question(id, topic, correct) ==
    [id |-> id, topic |-> topic, answers |-> <<"A", "B">>, correct_answers |-> correct]

\* models.UserAnswer
UserAnswer(question_id, selected_answers, bookmarked) ==
    [question_id |-> question_id, selected_answers |-> selected_answers,
     time_spent_seconds |-> None, bookmarked |-> bookmarked]

\* the content of data/questions.json
QuestionBank ==
    << Question("Q1", "DataRaptors", <<"B">>),
       Question("Q2", "OmniScripts", <<"A", "B">>),
       Question("Q3", "DataRaptors", <<"A">>),
       Question("Q4", "Integration Procedures", <<"B">>) >>

\* the question files that can be opened and parsed: questions.json with the
\* first n questions of the bank, and a file that holds no question
QuestionFiles(n) == [f \in {"questions.json", "empty.json"} |->
                       IF f = "questions.json" THEN SubSeq(QuestionBank, 1, n) ELSE <<>>]

\* models.Exam (the fields the engine reads)
Exam(questions_file, duration_minutes, total_questions) ==
    [questions_file |-> questions_file, duration_minutes |-> duration_minutes,
     total_questions |-> total_questions]

\* models.ExamConfig (the fields the engine reads); the two percentages are kept
\* in tenths of a percent, 700 for 70.0
ExamConfig(randomize_questions, randomize_answers, passing_score, weak_threshold) ==
    [randomize_questions |-> randomize_questions,
     randomize_answers |-> randomize_answers,
     passing_score_percentage |-> passing_score,
     weak_area_threshold_percentage |-> weak_threshold]

\* the content of data/exams.json
ExamDefinitions ==
    [e \in {"dev", "full", "quick", "empty", "broken"} |->
        CASE e = "dev"    -> Exam("questions.json", 1, 2)
          [] e = "full"   -> Exam("questions.json", 2, 5)
          [] e = "quick"  -> Exam("questions.json", 0, 1)
          [] e = "empty"  -> Exam("empty.json", 1, 2)
          [] e = "broken" -> Exam("missing.json", 1, 2)]

\* what callers pass
ExamIdArgs == DOMAIN ExamDefinitions \cup {"nope"}
ModeArgs == {"exam", "study"}
TopicsArgs == {None, Some(<<>>), Some(<<"DataRaptors">>), Some(<<"FlexCards">>)}
CountArgs == {None} \cup {Some(n) : n \in -1..MaxCount}
IndexArgs == -1..MaxIndex
\* the create_exam_session calls of Spec: <<exam_id, mode, topics, question_count>>
CreateArgs ==
    { <<"dev", "exam", None, None>>,
      <<"full", "study", Some(<<"FlexCards">>), None>>,
      <<"nope", "exam", None, None>>,
      <<"empty", "exam", None, Some(1)>>,
      <<"broken", "study", None, None>> }
\* the submit_answer calls: <<question_id, selected_answers, bookmarked>>
AnswerArgs ==
    { <<"Q1", <<"B">>, FALSE>>, <<"Q1", <<>>, TRUE>>,
      <<"Q9", <<"Z">>, FALSE>>, <<"Q9", <<"A", "B">>, TRUE>> }

----------------------------------------------------------------------------
(* ExamEngine *)

Idle == [t \in Threads |-> "idle"]
NoLocals == [t \in Threads |-> <<>>]

\* ExamEngine.__init__, whatever data/config.json says of randomize_questions
Init ==
    /\ exams = ExamDefinitions
    /\ files = QuestionFiles(2)
    /\ config \in {ExamConfig(rq, FALSE, 700, 650) : rq \in BOOLEAN}
    /\ active_sessions = <<>>
    /\ now = 0
    /\ last = [op |-> "__init__"]
    /\ pc = Idle
    /\ loc = NoLocals

get_exam(exam_id) ==
    IF exam_id \in DOMAIN exams THEN Some(exams[exam_id]) ELSE None

_load_questions_for_exam(exam_id) ==
    IF exam_id \notin DOMAIN exams THEN <<>>
    ELSE LET questions_file == exams[exam_id].questions_file
         IN  IF questions_file \in DOMAIN files THEN files[questions_file] ELSE <<>>

\* lines 118-122: the candidate pool
filter_by_topics_ignored(available_questions, topics) == available_questions
filter_by_topics(available_questions, topics) ==
    IF topics # None /\ Val(topics) # <<>>
    THEN SelectSeq(available_questions, LAMBDA q : q.topic \in Range(Val(topics)))
    ELSE available_questions

\* lines 125-126
num_questions(question_count, exam, available_questions) ==
    Min(IF question_count # None /\ Val(question_count) # 0
            THEN Val(question_count) ELSE exam.total_questions,
        Len(available_questions))

\* random.sample(population, k): every order of every k distinct positions
random_sample(population, k) ==
    {[i \in 1..k |-> population[p[i]]] :
        p \in {f \in [1..k -> 1..Len(population)] :
                 \A i, j \in 1..k : f[i] = f[j] => i = j}}

\* lines 132-134, when random.sample does not raise
select_questions(available_questions, num) ==
    IF config.randomize_questions
    THEN random_sample(available_questions, num)
    ELSE {SliceTo(available_questions, num)}

\* random.shuffle(answers): every order of the list
random_shuffle(answers) ==
    {[i \in 1..Len(answers) |-> answers[p[i]]] : p \in Perms(Len(answers))}

\* lines 137-139
shuffle_answers(selected_questions) ==
    IF config.randomize_answers
    THEN {qs \in [1..Len(selected_questions) ->
                    UNION {{[selected_questions[i] EXCEPT !.answers = a] :
                              a \in random_shuffle(selected_questions[i].answers)} :
                           i \in 1..Len(selected_questions)}] :
            \A i \in 1..Len(selected_questions) :
                [qs[i] EXCEPT !.answers = selected_questions[i].answers]
                    = selected_questions[i]}
    ELSE {selected_questions}

\* models.ExamSession, as lines 142-150 construct it
ExamSession_always_timed(mode, exam, selected_questions) ==
    [mode |-> mode,
     questions |-> selected_questions,
     start_time |-> now,
     duration_minutes |-> Some(exam.duration_minutes),
     current_question_index |-> 0,
     user_answers |-> <<>>]
ExamSession(mode, exam, selected_questions) ==
    [mode |-> mode,
     questions |-> selected_questions,
     start_time |-> now,
     duration_minutes |-> IF mode = "exam" THEN Some(exam.duration_minutes) ELSE None,
     current_question_index |-> 0,
     user_answers |-> <<>>]

\* a store whose sessions share the Question objects of the session that comes in
Store_sharing_questions(session_id, session) ==
    LET Shared(question) ==
            IF \E j \in DOMAIN session.questions : session.questions[j].id = question.id
            THEN session.questions[CHOOSE j \in DOMAIN session.questions :
                                      session.questions[j].id = question.id]
            ELSE question
    IN  [s \in DOMAIN active_sessions \cup {session_id} |->
            IF s = session_id THEN session
            ELSE [active_sessions[s] EXCEPT
                    !.questions = [i \in DOMAIN @ |-> Shared(@[i])]]]

Store_only_new(session_id, session) ==
    [s \in {session_id} |-> session]
Store(session_id, session) ==
    [s \in DOMAIN active_sessions \cup {session_id} |->
        IF s = session_id THEN session ELSE active_sessions[s]]

\* line 114: not available_questions
no_questions_is_none(available_questions) == FALSE
no_questions(available_questions) == available_questions = <<>>

CreateCall(exam_id, mode, topics, question_count, ret) ==
    [op |-> "create_exam_session", exam_id |-> exam_id, mode |-> mode,
     topics |-> topics, question_count |-> question_count, ret |-> ret]

create_exam_session(exam_id, mode, topics, question_count) ==
    /\ pc = Idle
    /\ IF get_exam(exam_id) = None
       THEN /\ last' = CreateCall(exam_id, mode, topics, question_count, "ExamNotFound")
            /\ UNCHANGED active_sessions
       ELSE IF no_questions(_load_questions_for_exam(exam_id))
       THEN /\ last' = CreateCall(exam_id, mode, topics, question_count, "NoQuestions")
            /\ UNCHANGED active_sessions
       ELSE LET exam == Val(get_exam(exam_id))
                available_questions ==
                    filter_by_topics(_load_questions_for_exam(exam_id), topics)
                num == num_questions(question_count, exam, available_questions)
            IN  IF config.randomize_questions /\ num < 0
                THEN \* random.sample raises ValueError
                     /\ last' = CreateCall(exam_id, mode, topics, question_count,
                                           "SampleError")
                     /\ UNCHANGED active_sessions
                ELSE \E session_id \in SessionIds \ DOMAIN active_sessions,
                        selected \in select_questions(available_questions, num) :
                     \E selected_questions \in shuffle_answers(selected) :
                        /\ active_sessions' =
                             Store(session_id, ExamSession(mode, exam, selected_questions))
                        /\ last' = CreateCall(exam_id, mode, topics, question_count,
                                              session_id)
    /\ UNCHANGED <<exams, files, config, now, pc, loc>>

get_session(session_id) ==
    IF session_id \in DOMAIN active_sessions
    THEN Some(active_sessions[session_id]) ELSE None

\* lines 179-182
without_question_keep(user_answers, question_id) == user_answers
without_question(user_answers, question_id) ==
    SelectSeq(user_answers, LAMBDA a : a.question_id # question_id)

\* lines 185-190
append_answer_unbookmarked(user_answers, question_id, selected_answers, bookmarked) ==
    Append(user_answers, UserAnswer(question_id, selected_answers, FALSE))
append_answer(user_answers, question_id, selected_answers, bookmarked) ==
    Append(user_answers, UserAnswer(question_id, selected_answers, bookmarked))

\* a submit_answer call and what it returned; replaced: the session held an answer
\* for the question when the call was made
SubmitCall(session_id, question_id, selected_answers, bookmarked, ret) ==
    [op |-> "submit_answer", session_id |-> session_id, question_id |-> question_id,
     selected_answers |-> selected_answers, bookmarked |-> bookmarked, ret |-> ret,
     replaced |-> /\ session_id \in DOMAIN active_sessions
                  /\ \E a \in Range(active_sessions[session_id].user_answers) :
                        a.question_id = question_id]

\* submit_answer that turns down a question the session does not hold
submit_answer_validating(session_id, question_id, selected_answers, bookmarked) ==
    /\ pc = Idle
    /\ IF \/ get_session(session_id) = None
          \/ \A i \in DOMAIN active_sessions[session_id].questions :
                active_sessions[session_id].questions[i].id # question_id
       THEN /\ last' = SubmitCall(session_id, question_id, selected_answers,
                                  bookmarked, FALSE)
            /\ UNCHANGED active_sessions
       ELSE /\ active_sessions' =
                [active_sessions EXCEPT ![session_id].user_answers =
                    append_answer(without_question(@, question_id),
                                  question_id, selected_answers, bookmarked)]
            /\ last' = SubmitCall(session_id, question_id, selected_answers,
                                  bookmarked, TRUE)
    /\ UNCHANGED <<exams, files, config, now, pc, loc>>

\* submit_answer that goes on to the next question
submit_answer_advancing(session_id, question_id, selected_answers, bookmarked) ==
    /\ pc = Idle
    /\ IF get_session(session_id) = None
       THEN /\ last' = SubmitCall(session_id, question_id, selected_answers,
                                  bookmarked, FALSE)
            /\ UNCHANGED active_sessions
       ELSE /\ active_sessions' =
                [active_sessions EXCEPT
                    ![session_id].user_answers =
                        append_answer(without_question(@, question_id),
                                      question_id, selected_answers, bookmarked),
                    ![session_id].current_question_index =
                        IF @ + 1 < Len(active_sessions[session_id].questions)
                        THEN @ + 1 ELSE @]
            /\ last' = SubmitCall(session_id, question_id, selected_answers,
                                  bookmarked, TRUE)
    /\ UNCHANGED <<exams, files, config, now, pc, loc>>

\* submit_answer that makes the session it does not find
submit_answer_setdefault(session_id, question_id, selected_answers, bookmarked) ==
    /\ pc = Idle
    /\ active_sessions' =
         [s \in DOMAIN active_sessions \cup {session_id} |->
            IF s # session_id THEN active_sessions[s]
            ELSE IF s \in DOMAIN active_sessions
            THEN [active_sessions[s] EXCEPT !.user_answers =
                    append_answer(without_question(@, question_id),
                                  question_id, selected_answers, bookmarked)]
            ELSE [ExamSession("study", ExamDefinitions["dev"], <<>>)
                    EXCEPT !.user_answers =
                        <<UserAnswer(question_id, selected_answers, bookmarked)>>]]
    /\ last' = SubmitCall(session_id, question_id, selected_answers, bookmarked, TRUE)
    /\ UNCHANGED <<exams, files, config, now, pc, loc>>

submit_answer(session_id, question_id, selected_answers, bookmarked) ==
    /\ pc = Idle
    /\ IF get_session(session_id) = None
       THEN /\ last' = SubmitCall(session_id, question_id, selected_answers,
                                  bookmarked, FALSE)
            /\ UNCHANGED active_sessions
       ELSE /\ active_sessions' =
                [active_sessions EXCEPT ![session_id].user_answers =
                    append_answer(without_question(@, question_id),
                                  question_id, selected_answers, bookmarked)]
            /\ last' = SubmitCall(session_id, question_id, selected_answers,
                                  bookmarked, TRUE)
    /\ UNCHANGED <<exams, files, config, now, pc, loc>>

NavigateCall(session_id, index, ret) ==
    [op |-> "navigate_to_question", session_id |-> session_id, index |-> index,
     ret |-> ret]

\* line 200
index_in_range_inclusive(index, session) ==
    0 <= index /\ index <= Len(session.questions)
index_in_range(index, session) ==
    0 <= index /\ index < Len(session.questions)

\* navigate_to_question with the index assigned before it is checked
navigate_to_question_unchecked(session_id, index) ==
    /\ pc = Idle
    /\ IF get_session(session_id) = None
       THEN /\ last' = NavigateCall(session_id, index, FALSE)
            /\ UNCHANGED active_sessions
       ELSE /\ active_sessions' =
                [active_sessions EXCEPT ![session_id].current_question_index = index]
            /\ last' = NavigateCall(session_id, index,
                                    index_in_range(index, active_sessions[session_id]))
    /\ UNCHANGED <<exams, files, config, now, pc, loc>>

navigate_to_question(session_id, index) ==
    /\ pc = Idle
    /\ IF get_session(session_id) = None
       THEN /\ last' = NavigateCall(session_id, index, FALSE)
            /\ UNCHANGED active_sessions
       ELSE IF index_in_range(index, active_sessions[session_id])
       THEN /\ active_sessions' =
                [active_sessions EXCEPT ![session_id].current_question_index = index]
            /\ last' = NavigateCall(session_id, index, TRUE)
       ELSE /\ last' = NavigateCall(session_id, index, FALSE)
            /\ UNCHANGED active_sessions
    /\ UNCHANGED <<exams, files, config, now, pc, loc>>

\* lines 221-224: the first answer of the list for the question id
find_answer(user_answers, question_id) ==
    LET found == SelectSeq(user_answers, LAMBDA a : a.question_id = question_id)
    IN  IF found = <<>> THEN None ELSE Some(Head(found))

get_user_answer(session_id, question_id) ==
    IF get_session(session_id) = None THEN None
    ELSE find_answer(active_sessions[session_id].user_answers, question_id)

\* the lookups, as calls: what was asked and what came back
QueryCall(op, session_id, ret) ==
    [op |-> op, session_id |-> session_id, ret |-> ret]

get_session_call(session_id) ==
    /\ pc = Idle
    /\ last' = QueryCall("get_session", session_id, get_session(session_id))
    /\ UNCHANGED <<exams, files, config, active_sessions, now, pc, loc>>

\* lines 205-213
get_current_question(session_id) ==
    IF get_session(session_id) = None THEN None
    ELSE LET session == active_sessions[session_id]
         IN  IF 0 <= session.current_question_index
                /\ session.current_question_index < Len(session.questions)
             THEN Some(session.questions[session.current_question_index + 1])
             ELSE None

get_current_question_call(session_id) ==
    /\ pc = Idle
    /\ last' = QueryCall("get_current_question", session_id,
                         get_current_question(session_id))
    /\ UNCHANGED <<exams, files, config, active_sessions, now, pc, loc>>

get_user_answer_call(session_id, question_id) ==
    /\ pc = Idle
    /\ last' = [op |-> "get_user_answer", session_id |-> session_id,
                question_id |-> question_id,
                ret |-> get_user_answer(session_id, question_id)]
    /\ UNCHANGED <<exams, files, config, active_sessions, now, pc, loc>>

\* timedelta(minutes=...), in ticks
timedelta_minutes(minutes) == minutes * 60 * TicksPerSecond

\* int(td.total_seconds()): the seconds of a number of ticks, cut towards zero
int_total_seconds(ticks) ==
    IF ticks >= 0 THEN ticks \div TicksPerSecond ELSE -((-ticks) \div TicksPerSecond)

\* lines 229 and 239: not session or not session.duration_minutes
not_timed(session_id) ==
    \/ get_session(session_id) = None
    \/ active_sessions[session_id].duration_minutes = None
    \/ Val(active_sessions[session_id].duration_minutes) = 0

\* a call that reads the clock: the instant datetime.now() gave it, and what it
\* returned
ClockCall(op, session_id, ret) ==
    [op |-> op, session_id |-> session_id, at |-> now, ret |-> ret]

\* lines 226-234
is_session_expired(session_id) ==
    IF not_timed(session_id) THEN FALSE
    ELSE LET session == active_sessions[session_id]
             elapsed == now - session.start_time
             max_duration == timedelta_minutes(Val(session.duration_minutes))
         IN  elapsed > max_duration

is_session_expired_call(session_id) ==
    /\ pc = Idle
    /\ last' = ClockCall("is_session_expired", session_id,
                         is_session_expired(session_id))
    /\ UNCHANGED <<exams, files, config, active_sessions, now, pc, loc>>

\* get_remaining_time without the max(0, ...)
get_remaining_time_signed(session_id) ==
    IF not_timed(session_id) THEN None
    ELSE LET session == active_sessions[session_id]
             elapsed == now - session.start_time
             max_duration == timedelta_minutes(Val(session.duration_minutes))
         IN  Some(int_total_seconds(max_duration - elapsed))

\* lines 236-246
get_remaining_time(session_id) ==
    IF not_timed(session_id) THEN None
    ELSE LET session == active_sessions[session_id]
             elapsed == now - session.start_time
             max_duration == timedelta_minutes(Val(session.duration_minutes))
             remaining == max_duration - elapsed
         IN  Some(Max(0, int_total_seconds(remaining)))

get_remaining_time_call(session_id) ==
    /\ pc = Idle
    /\ last' = ClockCall("get_remaining_time", session_id,
                         get_remaining_time(session_id))
    /\ UNCHANGED <<exams, files, config, active_sessions, now, pc, loc>>

\* lines 270-271: the ids the user selected for the question, as a set; no id
\* when the session holds no answer for the question
selected(user_answers, question) ==
    LET user_answer == find_answer(user_answers, question.id)
    IN  IF user_answer # None THEN Range(Val(user_answer).selected_answers) ELSE {}

\* is_correct that compares the two lists
is_correct_as_listed(user_answers, question) ==
    LET user_answer == find_answer(user_answers, question.id)
    IN  /\ user_answer # None
        /\ Val(user_answer).selected_answers = question.correct_answers

\* lines 272-275: selected == correct, two sets
is_correct(user_answers, question) ==
    selected(user_answers, question) = Range(question.correct_answers)

\* lines 276-277
correct_count(session) ==
    Cardinality({i \in DOMAIN session.questions :
                    is_correct(session.user_answers, session.questions[i])})

\* lines 288-297: the detail of one question; list(selected) and list(correct)
\* come in no order, they are kept as the sets they are made from
question_detail(user_answers, question) ==
    LET user_answer == find_answer(user_answers, question.id)
    IN  [question_id |-> question.id,
         topic |-> question.topic,
         user_answers |-> selected(user_answers, question),
         correct_answers |-> Range(question.correct_answers),
         is_correct |-> is_correct(user_answers, question),
         bookmarked |-> IF user_answer # None THEN Val(user_answer).bookmarked
                        ELSE FALSE]

\* lines 300 and 308: correct / total * 100 when total > 0, else 0; the number
\* before it is rounded, kept as the fraction <<numerator, denominator>>
percentage(correct, total) ==
    IF total > 0 THEN <<correct * 100, total>> ELSE <<0, 1>>

\* round(x, 1) of lines 315 and 334, in tenths of a percent; a tie goes to the
\* even tenth
round_1(x) ==
    LET tenths == (x[1] * 10) \div x[2]
        rest == (x[1] * 10) % x[2]
    IN  IF 2 * rest < x[2] THEN tenths
        ELSE IF 2 * rest > x[2] THEN tenths + 1
        ELSE IF tenths % 2 = 0 THEN tenths ELSE tenths + 1

\* x >= threshold and x < threshold, for a fraction x and a threshold in tenths
at_least(x, threshold) == x[1] * 10 >= threshold * x[2]
less_than(x, threshold) == x[1] * 10 < threshold * x[2]

\* passed only above the passing score
passed_above(score_percentage) ==
    score_percentage[1] * 10 > config.passing_score_percentage * score_percentage[2]

\* line 301
passed(score_percentage) ==
    at_least(score_percentage, config.passing_score_percentage)

\* weak up to the threshold
is_weak_inclusive(topic_percentage) ==
    topic_percentage[1] * 10 <=
        config.weak_area_threshold_percentage * topic_percentage[2]

\* line 309
is_weak(topic_percentage) ==
    less_than(topic_percentage, config.weak_area_threshold_percentage)

\* the keys of topic_stats in the order of the dict: the topics of the questions,
\* each once, in the order in which the loop of line 268 first meets them
topics_met(questions) ==
    LET first == SelectSeq([i \in 1..Len(questions) |-> i],
                           LAMBDA i : \A j \in 1..(i - 1) :
                                         questions[j].topic # questions[i].topic)
    IN  [k \in 1..Len(first) |-> questions[first[k]].topic]

\* topic_stats that counts the answered questions only
topic_stats_answered(session) ==
    LET topics == topics_met(session.questions)
        OfTopic(t) == {i \in DOMAIN session.questions :
                          /\ session.questions[i].topic = t
                          /\ find_answer(session.user_answers,
                                         session.questions[i].id) # None}
    IN  [k \in DOMAIN topics |->
            [topic |-> topics[k],
             total |-> Cardinality(OfTopic(topics[k])),
             correct |-> Cardinality({i \in OfTopic(topics[k]) :
                            is_correct(session.user_answers, session.questions[i])})]]

\* lines 279-285: topic_stats, {"total", "correct"} for each topic met
topic_stats(session) ==
    LET topics == topics_met(session.questions)
        OfTopic(t) == {i \in DOMAIN session.questions :
                          session.questions[i].topic = t}
    IN  [k \in DOMAIN topics |->
            [topic |-> topics[k],
             total |-> Cardinality(OfTopic(topics[k])),
             correct |-> Cardinality({i \in OfTopic(topics[k]) :
                            is_correct(session.user_answers, session.questions[i])})]]

\* lines 311-317: models.TopicPerformance of one entry of topic_stats
TopicPerformance(stats) ==
    [topic |-> stats.topic,
     total_questions |-> stats.total,
     correct_answers |-> stats.correct,
     percentage |-> round_1(percentage(stats.correct, stats.total)),
     is_weak_area |-> is_weak(percentage(stats.correct, stats.total))]

\* lines 307-317: topic_performance as the loop over topic_stats.items() builds it
topic_performance(session) ==
    LET stats == topic_stats(session)
    IN  [k \in DOMAIN stats |-> TopicPerformance(stats[k])]

\* lines 319-320: weak_areas, appended to in the same loop
weak_areas(session) ==
    LET weak == SelectSeq(topic_performance(session), LAMBDA t : t.is_weak_area)
    IN  [k \in DOMAIN weak |-> weak[k].topic]

\* a sort that puts the later of two equal entries first
sort_ties_reversed(performance) ==
    LET Before(i, j) ==
            \/ performance[i].percentage < performance[j].percentage
            \/ performance[i].percentage = performance[j].percentage /\ i > j
        Place(i) == 1 + Cardinality({j \in DOMAIN performance : Before(j, i)})
    IN  [k \in DOMAIN performance |->
            performance[CHOOSE i \in DOMAIN performance : Place(i) = k]]

\* line 323: list.sort(key=percentage), which is stable
sort_by_percentage(performance) ==
    LET Before(i, j) ==
            \/ performance[i].percentage < performance[j].percentage
            \/ performance[i].percentage = performance[j].percentage /\ i < j
        Place(i) == 1 + Cardinality({j \in DOMAIN performance : Before(j, i)})
    IN  [k \in DOMAIN performance |->
            performance[CHOOSE i \in DOMAIN performance : Place(i) = k]]

\* line 326 and int() of line 336: the whole minutes since the start
time_taken_minutes(session) ==
    (now - session.start_time) \div timedelta_minutes(1)

\* lines 329-341 with the passed flag it is given
ExamResultWith(session_id, session, passed_flag) ==
    [session_id |-> session_id,
     exam_mode |-> session.mode,
     total_questions |-> Len(session.questions),
     correct_answers |-> correct_count(session),
     score_percentage |->
        round_1(percentage(correct_count(session), Len(session.questions))),
     passed |-> passed_flag,
     time_taken_minutes |-> time_taken_minutes(session),
     completion_date |-> now,
     topic_performance |-> sort_by_percentage(topic_performance(session)),
     weak_areas |-> weak_areas(session),
     question_details |->
        [i \in DOMAIN session.questions |->
            question_detail(session.user_answers, session.questions[i])]]

\* an ExamResult that passes nobody who took more than a minute
ExamResult_in_a_minute(session_id, session) ==
    ExamResultWith(session_id, session,
        /\ passed(percentage(correct_count(session), Len(session.questions)))
        /\ time_taken_minutes(session) = 0)

\* lines 299-341: models.ExamResult
ExamResult(session_id, session) ==
    ExamResultWith(session_id, session,
        passed(percentage(correct_count(session), Len(session.questions))))

\* what the disk does to _save_result: the results directory can be made and the
\* file written, or the file cannot be written, or the directory cannot be made
DiskArgs == {"ok", "write_fails", "mkdir_fails"}

\* a calculate_score call: the disk it met, whether the call before it was a
\* calculate_score that returned a result for the same session, what it returned,
\* and whether it raised instead
ScoreCall(session_id, disk, ret, raised) ==
    [op |-> "calculate_score", session_id |-> session_id, disk |-> disk,
     again |-> /\ last.op = "calculate_score"
               /\ last.session_id = session_id
               /\ last.ret # None,
     ret |-> ret, raised |-> raised]

\* calculate_score that ends the session it scores
calculate_score_closing(session_id, disk) ==
    /\ pc = Idle
    /\ IF get_session(session_id) = None
       THEN /\ last' = ScoreCall(session_id, disk, None, FALSE)
            /\ UNCHANGED active_sessions
       ELSE /\ last' = ScoreCall(session_id, disk,
                                 Some(ExamResult(session_id, active_sessions[session_id])),
                                 FALSE)
            /\ active_sessions' =
                  [active_sessions EXCEPT ![session_id].user_answers = <<>>]
    /\ UNCHANGED <<exams, files, config, now, pc, loc>>

\* lines 248-359: the result is computed, then _save_result makes the results
\* directory (line 351, outside the try) and writes the file (inside it)
calculate_score(session_id, disk) ==
    /\ pc = Idle
    /\ IF get_session(session_id) = None
       THEN last' = ScoreCall(session_id, disk, None, FALSE)
       ELSE IF disk = "mkdir_fails"
       THEN last' = ScoreCall(session_id, disk, None, TRUE)
       ELSE last' = ScoreCall(session_id, disk,
                              Some(ExamResult(session_id, active_sessions[session_id])),
                              FALSE)
    /\ UNCHANGED <<exams, files, config, active_sessions, now, pc, loc>>

\* the instants at which the engine is called: the start, one tick later, and one
\* tick before, at and after one and two minutes
Instants ==
    {0, 1} \cup UNION {{timedelta_minutes(m) - 1, timedelta_minutes(m),
                        timedelta_minutes(m) + 1} : m \in 1..2}

\* time passes between two calls
Tick ==
    /\ pc = Idle
    /\ \E later \in Instants : later > now /\ now' = later
    /\ UNCHANGED <<exams, files, config, active_sessions, last, pc, loc>>

Next ==
    \/ \E c \in CreateArgs : create_exam_session(c[1], c[2], c[3], c[4])
    \/ \E session_id \in SessionIds, a \in AnswerArgs :
            submit_answer(session_id, a[1], a[2], a[3])
    \/ \E session_id \in SessionIds, index \in IndexArgs :
            navigate_to_question(session_id, index)

Spec == Init /\ [][Next]_vars

(* create_exam_session alone: one call on a fresh engine, over every exam id, mode,
   topic filter and question count, under every setting of the randomize flags *)

InitCreate ==
    /\ exams = ExamDefinitions
    /\ files = QuestionFiles(3)
    /\ config \in {ExamConfig(rq, ra, 700, 650) : rq \in BOOLEAN, ra \in BOOLEAN}
    /\ active_sessions = <<>>
    /\ now = 0
    /\ last = [op |-> "__init__"]
    /\ pc = Idle
    /\ loc = NoLocals

NextCreate ==
    /\ last.op = "__init__"
    /\ \E exam_id \in ExamIdArgs, mode \in ModeArgs, topics \in TopicsArgs,
          question_count \in CountArgs :
            create_exam_session(exam_id, mode, topics, question_count)

SpecCreate == InitCreate /\ [][NextCreate]_vars

(* every operation of the engine, on up to two sessions, at one instant *)

ApiCreateArgs ==
    { <<"dev", "exam", None, None>>,
      <<"quick", "study", Some(<<"FlexCards">>), None>>,
      <<"nope", "exam", None, None>> }
ApiAnswerArgs == { <<"Q1", <<"B">>, FALSE>>, <<"Q9", <<"Z">>, TRUE>> }

InitApi ==
    /\ exams = ExamDefinitions
    /\ files = QuestionFiles(2)
    /\ config = ExamConfig(FALSE, FALSE, 700, 650)
    /\ active_sessions = <<>>
    /\ now = 0
    /\ last = [op |-> "__init__"]
    /\ pc = Idle
    /\ loc = NoLocals

NextApi ==
    \/ \E c \in ApiCreateArgs : create_exam_session(c[1], c[2], c[3], c[4])
    \/ \E session_id \in SessionIds, a \in ApiAnswerArgs :
            submit_answer(session_id, a[1], a[2], a[3])
    \/ \E session_id \in SessionIds, index \in IndexArgs :
            navigate_to_question(session_id, index)
    \/ \E session_id \in SessionIds : get_session_call(session_id)
    \/ \E session_id \in SessionIds : get_current_question_call(session_id)
    \/ \E session_id \in SessionIds, a \in ApiAnswerArgs :
            get_user_answer_call(session_id, a[1])
    \/ \E session_id \in SessionIds : is_session_expired_call(session_id)
    \/ \E session_id \in SessionIds : get_remaining_time_call(session_id)
    \/ \E session_id \in SessionIds, disk \in DiskArgs :
            calculate_score(session_id, disk)

SpecApi == InitApi /\ [][NextApi]_vars

(* one session and the clock: a session is made at some instant, time passes
   between the calls, and the expiry queries, submit_answer, navigate_to_question
   and calculate_score are called at every instant *)

\* exam and study sessions of the exams that last 0, 1 and 2 minutes
TimeCreateArgs ==
    {<<"dev", "exam", None, None>>,
     <<"quick", "exam", None, None>>,
     <<"dev", "study", None, None>>,
     <<"quick", "study", None, None>>,
     <<"full", "study", None, None>>}

NextTime ==
    \/ /\ active_sessions = <<>>
       /\ \E c \in TimeCreateArgs : create_exam_session(c[1], c[2], c[3], c[4])
    \/ Tick
    \/ \E session_id \in SessionIds : is_session_expired_call(session_id)
    \/ \E session_id \in SessionIds : get_remaining_time_call(session_id)
    \/ \E session_id \in SessionIds, a \in ApiAnswerArgs :
            submit_answer(session_id, a[1], a[2], a[3])
    \/ \E session_id \in SessionIds, index \in IndexArgs :
            navigate_to_question(session_id, index)
    \/ \E session_id \in SessionIds, disk \in DiskArgs :
            calculate_score(session_id, disk)

SpecTime == InitApi /\ [][NextTime]_vars

(* scoring: one session of up to four questions in three topics, answered and
   scored in every order, under several passing scores and weak-area thresholds *)

\* the <<passing_score_percentage, weak_area_threshold_percentage>> of
\* data/config.json, in tenths: the defaults 70.0 and 65.0, thresholds that a
\* score of 50 and of 100 meets exactly, and thresholds between a score and its
\* rounded value
ThresholdArgs == { <<700, 650>>, <<500, 500>>, <<1000, 1000>>, <<667, 333>> }

\* sessions of all four questions, of the first three, of the two DataRaptors
\* questions, and of no question
ScoreCreateArgs ==
    { <<"full", "exam", None, None>>,
      <<"full", "study", None, Some(3)>>,
      <<"full", "exam", Some(<<"DataRaptors">>), None>>,
      <<"full", "study", Some(<<"FlexCards">>), None>> }

\* a right and a wrong answer for each of Q1, Q2 and Q3 (the right one of Q2 in
\* another order and with an id twice, the wrong one of Q3 empty), the right one
\* for Q4
ScoreAnswerArgs ==
    { <<"Q1", <<"B">>, FALSE>>, <<"Q1", <<"A">>, TRUE>>,
      <<"Q2", <<"B", "A", "B">>, FALSE>>, <<"Q2", <<"A">>, FALSE>>,
      <<"Q3", <<"A">>, TRUE>>, <<"Q3", <<>>, FALSE>>,
      <<"Q4", <<"B">>, FALSE>> }

InitScore ==
    /\ exams = ExamDefinitions
    /\ files = QuestionFiles(4)
    /\ config \in {ExamConfig(FALSE, FALSE, t[1], t[2]) : t \in ThresholdArgs}
    /\ active_sessions = <<>>
    /\ now = 0
    /\ last = [op |-> "__init__"]
    /\ pc = Idle
    /\ loc = NoLocals

NextScore ==
    \/ /\ active_sessions = <<>>
       /\ \E c \in ScoreCreateArgs : create_exam_session(c[1], c[2], c[3], c[4])
    \/ \E session_id \in DOMAIN active_sessions, a \in ScoreAnswerArgs :
            submit_answer(session_id, a[1], a[2], a[3])
    \/ \E session_id \in DOMAIN active_sessions :
            calculate_score(session_id, "ok")

SpecScore == InitScore /\ [][NextScore]_vars

(* sessions made one after the other from the same question file, with
   randomize_answers on or off *)

SnapshotCreateArgs ==
    { <<"dev", "exam", None, None>>,
      <<"quick", "study", None, None>>,
      <<"full", "exam", Some(<<"OmniScripts">>), None>> }

InitSnapshot ==
    /\ exams = ExamDefinitions
    /\ files = QuestionFiles(2)
    /\ config \in {ExamConfig(rq, ra, 700, 650) : rq \in BOOLEAN, ra \in BOOLEAN}
    /\ active_sessions = <<>>
    /\ now = 0
    /\ last = [op |-> "__init__"]
    /\ pc = Idle
    /\ loc = NoLocals

NextSnapshot ==
    \E c \in SnapshotCreateArgs : create_exam_session(c[1], c[2], c[3], c[4])

SpecSnapshot == InitSnapshot /\ [][NextSnapshot]_vars

(* submit_answer called by two threads at once on an engine that holds one session
   with one answer: each thread makes one call, and a thread may be preempted
   between the statement that removes the old answer and the statements that
   append the new one *)

\* the answer the session holds when the two calls are made
FirstAnswer == UserAnswer("Q1", <<>>, TRUE)

InitConc ==
    /\ exams = ExamDefinitions
    /\ files = QuestionFiles(2)
    /\ config = ExamConfig(FALSE, FALSE, 700, 650)
    /\ now = 0
    /\ active_sessions =
          [s \in {"s1"} |->
              [ExamSession("exam", ExamDefinitions["dev"], QuestionFiles(2)["questions.json"])
                  EXCEPT !.user_answers = <<FirstAnswer>>]]
    /\ last = [op |-> "__init__"]
    /\ pc = Idle
    /\ loc = NoLocals

\* lines 174-182: look the session up, rebuild its user_answers without the
\* question and assign the list
submit_answer_remove(t, session_id, question_id, selected_answers, bookmarked) ==
    /\ pc[t] = "idle"
    /\ loc' = [loc EXCEPT ![t] = [session_id |-> session_id,
                                  question_id |-> question_id,
                                  selected_answers |-> selected_answers,
                                  bookmarked |-> bookmarked]]
    /\ IF get_session(session_id) = None
       THEN /\ last' = SubmitCall(session_id, question_id, selected_answers,
                                  bookmarked, FALSE)
            /\ pc' = [pc EXCEPT ![t] = "done"]
            /\ UNCHANGED active_sessions
       ELSE /\ active_sessions' =
                [active_sessions EXCEPT ![session_id].user_answers =
                    without_question(@, question_id)]
            /\ pc' = [pc EXCEPT ![t] = "append"]
            /\ UNCHANGED last
    /\ UNCHANGED <<exams, files, config, now>>

\* lines 185-192: append the new answer to the list the session holds now
submit_answer_append(t) ==
    /\ pc[t] = "append"
    /\ active_sessions' =
         [active_sessions EXCEPT ![loc[t].session_id].user_answers =
             append_answer(@, loc[t].question_id, loc[t].selected_answers,
                           loc[t].bookmarked)]
    /\ last' = SubmitCall(loc[t].session_id, loc[t].question_id,
                          loc[t].selected_answers, loc[t].bookmarked, TRUE)
    /\ pc' = [pc EXCEPT ![t] = "done"]
    /\ UNCHANGED <<exams, files, config, now, loc>>

NextConc ==
    \/ \E t \in Threads, session_id \in SessionIds, a \in AnswerArgs :
            submit_answer_remove(t, session_id, a[1], a[2], a[3])
    \/ \E t \in Threads : submit_answer_append(t)

SpecConc == InitConc /\ [][NextConc]_vars

----------------------------------------------------------------------------
(* The session store: answers and navigation *)

\* the number of UserAnswers a list holds for a question id
CountFor(user_answers, question_id) ==
    Cardinality({i \in DOMAIN user_answers : user_answers[i].question_id = question_id})

QuestionIds == {a[1] : a \in AnswerArgs}

\* C1: whatever sequence of create_exam_session and (sequential) submit_answer
\* calls was made, no session's user_answers holds two UserAnswers for one
\* question id.
C1_OneAnswerPerQuestion ==
    \A s \in DOMAIN active_sessions :
        \A i, j \in DOMAIN active_sessions[s].user_answers :
            active_sessions[s].user_answers[i].question_id
                = active_sessions[s].user_answers[j].question_id => i = j

\* a submit_answer call has just replaced an answer while the session also holds
\* an answer for another question
C1_Witness ==
    /\ last.op = "submit_answer"
    /\ last.ret
    /\ last.replaced
    /\ Len(active_sessions[last.session_id].user_answers) = 2

\* what a submit_answer call that runs alone makes of a session's user_answers
Submitted(user_answers, call) ==
    IF call.session_id = "s1"
    THEN Append(SelectSeq(user_answers, LAMBDA a : a.question_id # call.question_id),
                UserAnswer(call.question_id, call.selected_answers, call.bookmarked))
    ELSE user_answers

\* C2: when two submit_answer calls on one session run at the same time, the
\* remove step and the append step of each being separate steps, the session's
\* user_answers ends as one of the two serial orders of the calls leaves it (so
\* no question id ends with two answers and no submitted answer is lost).
C2_Serializable ==
    (\A t \in Threads : pc[t] = "done") =>
        active_sessions["s1"].user_answers \in
            { Submitted(Submitted(<<FirstAnswer>>, loc["t1"]), loc["t2"]),
              Submitted(Submitted(<<FirstAnswer>>, loc["t2"]), loc["t1"]) }

\* C3: a successful submit_answer(s, Q, B) leaves exactly one UserAnswer for Q,
\* which carries B's selected ids and bookmarked flag and is what
\* get_user_answer(s, Q) returns, and it leaves what get_user_answer returns for
\* every other question as it was: so after A for Q, any submissions for other
\* questions, and B for Q, the one answer for Q is B.
C3_Replacement ==
    [][(last'.op = "submit_answer" /\ last'.ret) =>
          LET s == last'.session_id
              B == UserAnswer(last'.question_id, last'.selected_answers,
                              last'.bookmarked)
          IN  /\ CountFor(active_sessions'[s].user_answers, last'.question_id) = 1
              /\ find_answer(active_sessions'[s].user_answers, last'.question_id)
                    = Some(B)
              /\ \A q \in QuestionIds \ {last'.question_id} :
                    find_answer(active_sessions'[s].user_answers, q)
                        = find_answer(active_sessions[s].user_answers, q)
    ]_vars

\* answer B for Q1 has replaced another answer for Q1, the session holding an
\* answer for Q9 as well
C3_Witness ==
    /\ last.op = "submit_answer"
    /\ last.ret
    /\ last.replaced
    /\ last.question_id = "Q1"
    /\ get_user_answer(last.session_id, "Q1") = Some(UserAnswer("Q1", <<"B">>, FALSE))
    /\ get_user_answer(last.session_id, "Q9") # None

\* C4: navigate_to_question(s, index) returns true exactly when the session
\* exists and 0 <= index < len(questions), and then the session's current index
\* is index.
C4_NavigateResult ==
    last.op = "navigate_to_question" =>
        /\ last.ret <=>
             /\ last.session_id \in DOMAIN active_sessions
             /\ 0 <= last.index
             /\ last.index < Len(active_sessions[last.session_id].questions)
        /\ last.ret =>
             active_sessions[last.session_id].current_question_index = last.index

\* a navigate call to the last question of a session has returned true
C4_Witness ==
    /\ last.op = "navigate_to_question"
    /\ last.ret
    /\ last.index = Len(active_sessions[last.session_id].questions) - 1
    /\ last.index > 0

\* C5: a navigate_to_question call that returns false changes no session.
C5_FailedNavigate ==
    [][(last'.op = "navigate_to_question" /\ ~last'.ret) =>
          active_sessions' = active_sessions]_vars

\* a navigate call with an index past the end has returned false on a session
\* that stands at its second question
C5_Witness ==
    /\ last.op = "navigate_to_question"
    /\ ~last.ret
    /\ last.session_id \in DOMAIN active_sessions
    /\ last.index >= Len(active_sessions[last.session_id].questions)
    /\ active_sessions[last.session_id].current_question_index = 1

\* C6 as stated: every stored session has
\* 0 <= current_question_index <= len(questions) - 1.
C6_IndexInsideQuestions ==
    \A s \in DOMAIN active_sessions :
        /\ 0 <= active_sessions[s].current_question_index
        /\ active_sessions[s].current_question_index
             <= Len(active_sessions[s].questions) - 1

\* C6, amended: every stored session with at least one question has
\* 0 <= current_question_index <= len(questions) - 1, and a session without
\* questions has current_question_index 0.
C6_IndexInsideNonEmpty ==
    \A s \in DOMAIN active_sessions :
        IF active_sessions[s].questions = <<>>
        THEN active_sessions[s].current_question_index = 0
        ELSE /\ 0 <= active_sessions[s].current_question_index
             /\ active_sessions[s].current_question_index
                  <= Len(active_sessions[s].questions) - 1

\* the store holds a session without questions and a session that was moved to its
\* last question
C6_Witness ==
    /\ \E s \in DOMAIN active_sessions : active_sessions[s].questions = <<>>
    /\ \E s \in DOMAIN active_sessions :
          /\ active_sessions[s].current_question_index > 0
          /\ active_sessions[s].current_question_index
               = Len(active_sessions[s].questions) - 1

\* C10: create_exam_session for an exam id that is not known, or for an exam whose
\* question set is empty, fails with the not-found error, and the store is as it
\* was.
C10_CreateNotFound ==
    [][(/\ last'.op = "create_exam_session"
        /\ \/ last'.exam_id \notin DOMAIN exams
           \/ exams[last'.exam_id].questions_file \notin DOMAIN files
           \/ files[exams[last'.exam_id].questions_file] = <<>>)
       => /\ last'.ret \in {"ExamNotFound", "NoQuestions"}
          /\ active_sessions' = active_sessions]_vars

\* create_exam_session has failed for want of questions while the store holds a
\* session with an answer
C10_Witness ==
    /\ last.op = "create_exam_session"
    /\ last.ret = "NoQuestions"
    /\ \E s \in DOMAIN active_sessions : active_sessions[s].user_answers # <<>>

----------------------------------------------------------------------------
(* create_exam_session: how many questions, and which *)

\* the created session's questions, by id
CreatedIds == [i \in DOMAIN active_sessions[last.ret].questions |->
                 active_sessions[last.ret].questions[i].id]

\* a create_exam_session call has got as far as selecting questions: its exam is
\* known and the exam's question file holds questions
CallWithQuestions ==
    /\ last.op = "create_exam_session"
    /\ last.exam_id \in DOMAIN exams
    /\ exams[last.exam_id].questions_file \in DOMAIN files
    /\ files[exams[last.exam_id].questions_file] # <<>>

\* the ids of the call's candidate pool: the exam's questions, those with a topic
\* of the filter when a non-empty filter is given, in the order of the file
RECURSIVE PoolIds(_, _)
PoolIds(questions, topics) ==
    IF questions = <<>> THEN <<>>
    ELSE IF topics \in {None, Some(<<>>)}
            \/ \E i \in DOMAIN Val(topics) : Val(topics)[i] = Head(questions).topic
         THEN <<Head(questions).id>> \o PoolIds(Tail(questions), topics)
         ELSE PoolIds(Tail(questions), topics)

CallPool == PoolIds(files[exams[last.exam_id].questions_file], last.topics)

\* the target count as the specification defines it: question_count whenever it is
\* given, else the exam's total_questions
CallTarget ==
    IF last.question_count # None THEN Val(last.question_count)
    ELSE exams[last.exam_id].total_questions

\* C7: create_exam_session with question_count = N, 0 <= N <= size of the
\* candidate pool, yields a session of exactly N questions, all of the pool, none
\* twice, with randomize_questions on or off.
C7_ExactlyN ==
    (/\ CallWithQuestions
     /\ last.question_count # None
     /\ 0 <= Val(last.question_count)
     /\ Val(last.question_count) <= Len(CallPool))
    => /\ last.ret \in SessionIds
       /\ Len(CreatedIds) = Val(last.question_count)
       /\ Range(CreatedIds) \subseteq Range(CallPool)
       /\ \A i, j \in DOMAIN CreatedIds : CreatedIds[i] = CreatedIds[j] => i = j

\* the call passes no negative question_count
CountNotNegative ==
    last.question_count # None => Val(last.question_count) >= 0

\* C8: a created session holds min(target, size of the candidate pool) questions,
\* the target being question_count whenever it is given and total_questions only
\* when it is not, and never more questions than the pool (stated for the calls
\* that pass no negative count).
C8_MinTargetPool ==
    (CallWithQuestions /\ last.ret \in SessionIds /\ CountNotNegative)
    => /\ Len(CreatedIds) = Min(CallTarget, Len(CallPool))
       /\ Len(CreatedIds) <= Len(CallPool)

\* C9: with randomize_questions off, a created session's questions are the first
\* target-count questions of the candidate pool, in the pool's order (stated for
\* the calls that pass no negative count).
C9_FirstOfPool ==
    (/\ CallWithQuestions
     /\ last.ret \in SessionIds
     /\ CountNotNegative
     /\ ~config.randomize_questions)
    => CreatedIds = SubSeq(CallPool, 1, Min(CallTarget, Len(CallPool)))

----------------------------------------------------------------------------
(* create_exam_session: the topic filter and the fresh session *)

\* the call passes a topic filter that is not empty
HasFilter == last.topics # None /\ Val(last.topics) # <<>>

\* a created session's questions all have a topic of the call's filter
CreatedInsideFilter ==
    \A i \in DOMAIN active_sessions[last.ret].questions :
        \E j \in DOMAIN Val(last.topics) :
            active_sessions[last.ret].questions[i].topic = Val(last.topics)[j]

\* the call succeeded and stored a session without questions
CreatedEmpty ==
    /\ last.ret \in SessionIds
    /\ active_sessions[last.ret].questions = <<>>

\* C11 as stated: with a non-empty topic filter every question of the created
\* session has a topic of the filter, and when no question of the exam matches the
\* filter create_exam_session still succeeds and stores a session of zero
\* questions.
C11_TopicFilter ==
    (CallWithQuestions /\ HasFilter) =>
        /\ last.ret \in SessionIds => CreatedInsideFilter
        /\ CallPool = <<>> => CreatedEmpty

\* C11, amended: with a non-empty topic filter every question of the created
\* session has a topic of the filter, and when no question of the exam matches the
\* filter create_exam_session still succeeds and stores a session of zero
\* questions, unless randomize_questions is on and question_count is negative,
\* when it fails (random.sample raises ValueError) and stores nothing.
C11_TopicFilterSampled ==
    (CallWithQuestions /\ HasFilter) =>
        /\ last.ret \in SessionIds => CreatedInsideFilter
        /\ CallPool = <<>> =>
              IF config.randomize_questions /\ ~CountNotNegative
              THEN last.ret = "SampleError" /\ active_sessions = <<>>
              ELSE CreatedEmpty

\* a call whose filter matches no question of the exam has stored a session
\* without questions
C11_Witness ==
    /\ CallWithQuestions
    /\ HasFilter
    /\ CallPool = <<>>
    /\ CreatedEmpty

\* C12: right after create_exam_session the new session has current index 0, no
\* user answers, and duration_minutes equal to the exam's duration_minutes when
\* the mode is "exam" and None otherwise.
C12_FreshSession ==
    (last.op = "create_exam_session" /\ last.ret \in SessionIds) =>
        /\ active_sessions[last.ret].current_question_index = 0
        /\ active_sessions[last.ret].user_answers = <<>>
        /\ active_sessions[last.ret].duration_minutes =
             IF last.mode = "exam"
             THEN Some(exams[last.exam_id].duration_minutes) ELSE None

\* a study session has been created for an exam that has a duration
C12_Witness ==
    /\ last.op = "create_exam_session"
    /\ last.ret \in SessionIds
    /\ last.mode = "study"
    /\ exams[last.exam_id].duration_minutes > 0
    /\ active_sessions[last.ret].duration_minutes = None

----------------------------------------------------------------------------
(* The store keeps its sessions; calls for a session it does not hold *)

\* what a session is from its creation on: its mode, questions, start and duration
Identity(session) ==
    <<session.mode, session.questions, session.start_time, session.duration_minutes>>

\* C13: whatever call is made (create_exam_session, submit_answer,
\* navigate_to_question, the lookups, the expiry queries, calculate_score), every
\* session of the store is still in the store under its id afterwards and is
\* still the session that was created, and a created session gets an id that no
\* session of the store has.
C13_SessionsStay ==
    [][/\ \A s \in DOMAIN active_sessions :
            /\ s \in DOMAIN active_sessions'
            /\ Identity(active_sessions'[s]) = Identity(active_sessions[s])
       /\ (last'.op = "create_exam_session" /\ last'.ret \in SessionIds) =>
            /\ last'.ret \notin DOMAIN active_sessions
            /\ DOMAIN active_sessions' = DOMAIN active_sessions \cup {last'.ret}
    ]_vars

\* a second session has been created beside a session that holds an answer and
\* stands at its second question
C13_Witness ==
    /\ last.op = "create_exam_session"
    /\ last.ret \in SessionIds
    /\ \E s \in DOMAIN active_sessions \ {last.ret} :
          /\ active_sessions[s].user_answers # <<>>
          /\ active_sessions[s].current_question_index = 1

\* the calls that name a session
SessionOps ==
    {"submit_answer", "navigate_to_question", "get_session", "get_current_question",
     "get_user_answer", "is_session_expired", "get_remaining_time", "calculate_score"}

\* C14: for a session id the store does not hold, submit_answer and
\* navigate_to_question return False, get_session, get_current_question,
\* get_user_answer and calculate_score return None, none of them raises, and the
\* store is as it was.
C14_MissingSession ==
    [][(last'.op \in SessionOps /\ last'.session_id \notin DOMAIN active_sessions) =>
          /\ active_sessions' = active_sessions
          /\ last'.op \in {"submit_answer", "navigate_to_question"} =>
                last'.ret = FALSE
          /\ last'.op \in {"get_session", "get_current_question", "get_user_answer",
                           "calculate_score"} => last'.ret = None
          /\ last'.op = "calculate_score" => ~last'.raised
    ]_vars

\* calculate_score has returned None for a session id the store does not hold,
\* on a disk where the results directory cannot be made, beside a stored session
C14_Witness ==
    /\ last.op = "calculate_score"
    /\ last.disk = "mkdir_fails"
    /\ last.session_id \notin DOMAIN active_sessions
    /\ last.ret = None
    /\ ~last.raised
    /\ active_sessions # <<>>

----------------------------------------------------------------------------
(* submit_answer: what it accepts, and submitting twice *)

\* the UserAnswer a submit_answer call carries
AnswerOf(call) ==
    UserAnswer(call.question_id, call.selected_answers, call.bookmarked)

\* C15: on a session of the store submit_answer returns True and stores the
\* question id and the selected ids it is given, be the question one of the
\* session's or not, the selected ids options of the question or not, the list
\* empty or not.
C15_StoredAsGiven ==
    (last.op = "submit_answer" /\ last.session_id \in DOMAIN active_sessions) =>
        /\ last.ret
        /\ active_sessions[last.session_id].user_answers # <<>>
        /\ active_sessions[last.session_id].user_answers[
              Len(active_sessions[last.session_id].user_answers)] = AnswerOf(last)

\* an answer has been stored for a question that is not among the session's, with
\* a selected id that no question has as an option
C15_Witness ==
    /\ last.op = "submit_answer"
    /\ last.ret
    /\ last.question_id = "Q9"
    /\ last.selected_answers = <<"Z">>
    /\ \A i \in DOMAIN active_sessions[last.session_id].questions :
          active_sessions[last.session_id].questions[i].id # "Q9"
    /\ get_user_answer(last.session_id, "Q9") = Some(AnswerOf(last))

\* the session's user_answers ends with the answer the call carries: the session
\* is as a submit_answer of that answer left it
JustSubmitted(call) ==
    /\ call.session_id \in DOMAIN active_sessions
    /\ active_sessions[call.session_id].user_answers # <<>>
    /\ active_sessions[call.session_id].user_answers[
          Len(active_sessions[call.session_id].user_answers)] = AnswerOf(call)

\* C16: a submit_answer applied to a session that a submit_answer of the same
\* question id, selected ids and bookmarked flag has left changes nothing: twice
\* yields the user_answers, in the order, that once yields.
C16_Idempotent ==
    [][(last'.op = "submit_answer" /\ last'.ret /\ JustSubmitted(last')) =>
          active_sessions' = active_sessions]_vars

\* the one answer for Q1 that callers submit has been submitted again to a session
\* that held it and no other answer
C16_Witness ==
    /\ last.op = "submit_answer"
    /\ last.ret
    /\ last.replaced
    /\ active_sessions[last.session_id].user_answers = <<AnswerOf(last)>>

----------------------------------------------------------------------------
(* The clock: expiry and remaining time *)

\* the session has a duration, be it 0
HasDuration(session_id) ==
    /\ session_id \in DOMAIN active_sessions
    /\ active_sessions[session_id].duration_minutes # None

\* the time from the session's start to the instant of the last call
Elapsed(session_id) == last.at - active_sessions[session_id].start_time

\* the session's duration as a span of time
Allowed(session_id) ==
    Val(active_sessions[session_id].duration_minutes) * 60 * TicksPerSecond

\* C17: is_session_expired returns False for a session the store does not hold
\* and for one whose duration_minutes is None; for every other session, one of
\* duration 0 included, it returns True exactly when the time since start_time
\* is strictly more than duration_minutes minutes.
C17_ExpiredIffOver ==
    last.op = "is_session_expired" =>
        last.ret = (/\ HasDuration(last.session_id)
                    /\ Elapsed(last.session_id) > Allowed(last.session_id))

\* C18: get_remaining_time returns None only for a session the store does not
\* hold or one whose duration_minutes is None; for every other session it returns
\* max(0, duration_minutes*60 - elapsed seconds) rounded down, which is never
\* negative and never more than duration_minutes*60.
C18_RemainingSeconds ==
    last.op = "get_remaining_time" =>
        IF ~HasDuration(last.session_id)
        THEN last.ret = None
        ELSE /\ last.ret = Some(Max(0, (Allowed(last.session_id)
                                          - Elapsed(last.session_id))
                                        \div TicksPerSecond))
             /\ Val(last.ret) >= 0
             /\ Val(last.ret) <=
                   Val(active_sessions[last.session_id].duration_minutes) * 60

\* C19: for a session made in mode "study", whatever the exam's duration, however
\* much time has passed and whatever submit_answer and navigate_to_question calls
\* were made, get_remaining_time returns None and is_session_expired False.
C19_StudyUntimed ==
    (/\ last.op \in {"is_session_expired", "get_remaining_time"}
     /\ last.session_id \in DOMAIN active_sessions
     /\ active_sessions[last.session_id].mode = "study") =>
        /\ last.op = "is_session_expired" => last.ret = FALSE
        /\ last.op = "get_remaining_time" => last.ret = None

\* a study session that has been answered and navigated is asked whether it has
\* expired, later than the longest exam lasts
C19_Witness ==
    /\ last.op = "is_session_expired"
    /\ last.session_id \in DOMAIN active_sessions
    /\ active_sessions[last.session_id].mode = "study"
    /\ active_sessions[last.session_id].user_answers # <<>>
    /\ active_sessions[last.session_id].current_question_index # 0
    /\ Elapsed(last.session_id) > 2 * 60 * TicksPerSecond

\* the step is a call on a session for which is_session_expired returns True
OnExpired(op) ==
    /\ last'.op = op
    /\ last'.session_id \in DOMAIN active_sessions
    /\ is_session_expired(last'.session_id)

\* submit_answer and navigate_to_question on an expired session do what they do
\* on any session, and the session stays
C20_MutationsGoOn ==
    /\ OnExpired("submit_answer") =>
          /\ last'.ret
          /\ active_sessions' =
                [active_sessions EXCEPT ![last'.session_id].user_answers =
                    SelectSeq(@, LAMBDA a : a.question_id # last'.question_id)
                        \o <<AnswerOf(last')>>]
    /\ OnExpired("navigate_to_question") =>
          LET session == active_sessions[last'.session_id]
          IN  IF 0 <= last'.index /\ last'.index < Len(session.questions)
              THEN /\ last'.ret
                   /\ active_sessions' =
                         [active_sessions EXCEPT
                             ![last'.session_id].current_question_index = last'.index]
              ELSE /\ ~last'.ret
                   /\ active_sessions' = active_sessions

\* calculate_score on an expired session returns a result
C20_ScoreGoesOn ==
    OnExpired("calculate_score") =>
        /\ ~last'.raised
        /\ last'.ret # None
        /\ active_sessions' = active_sessions

\* C20: expiry is advisory: once is_session_expired returns True for a timed
\* session, submit_answer and navigate_to_question on it still succeed and change
\* it as they change a session that has not expired, calculate_score still
\* returns a result, and no call ends or freezes the session.
C20_ExpiryAdvisory ==
    [][C20_MutationsGoOn /\ C20_ScoreGoesOn]_vars

----------------------------------------------------------------------------
(* calculate_score: what it counts as correct, and what it leaves alone *)

\* the last call was a calculate_score that returned a result
Scored == last.op = "calculate_score" /\ last.ret # None

\* the result it returned and the session it scored
Result == Val(last.ret)
ScoredSession == active_sessions[last.session_id]

\* the answers the session holds for the question
AnswersFor(session, question) ==
    {k \in DOMAIN session.user_answers :
        session.user_answers[k].question_id = question.id}

\* C21: in the result of calculate_score a question is_correct exactly when the
\* session holds a UserAnswer for its id whose selected ids, as a set, are the
\* question's correct ids as a set; a question without UserAnswer or with an
\* empty selection is not correct; and correct_answers counts the questions that
\* are is_correct.
C21_SetEquality ==
    Scored =>
        /\ DOMAIN Result.question_details = DOMAIN ScoredSession.questions
        /\ \A i \in DOMAIN ScoredSession.questions :
              LET question == ScoredSession.questions[i]
                  detail == Result.question_details[i]
                  answers == AnswersFor(ScoredSession, question)
              IN  /\ detail.question_id = question.id
                  /\ detail.is_correct <=>
                        \E k \in answers :
                            Range(ScoredSession.user_answers[k].selected_answers)
                                = Range(question.correct_answers)
                  /\ answers = {} => ~detail.is_correct
                  /\ (\E k \in answers :
                        ScoredSession.user_answers[k].selected_answers = <<>>)
                        => ~detail.is_correct
        /\ Result.correct_answers =
              Cardinality({i \in DOMAIN Result.question_details :
                              Result.question_details[i].is_correct})

\* a session of four questions has been scored: Q2 answered right with its ids in
\* another order and one of them twice, Q3 with an empty selection, Q1 right, Q4
\* not answered
C21_Witness ==
    /\ Scored
    /\ Len(ScoredSession.questions) = 4
    /\ ScoredSession.user_answers =
          << UserAnswer("Q2", <<"B", "A", "B">>, FALSE),
             UserAnswer("Q3", <<>>, FALSE),
             UserAnswer("Q1", <<"B">>, FALSE) >>
    /\ Result.correct_answers = 2

\* C22: calculate_score changes no session: the questions, user_answers, index,
\* start time and duration of the session it scores and every other session of
\* the store are what they were, and so are the exams, the question files and
\* the configuration.
C22_ScoreReadsOnly ==
    [][last'.op = "calculate_score" =>
          /\ active_sessions' = active_sessions
          /\ UNCHANGED <<exams, files, config>>]_vars

\* a session that has an answer and is not at its first question has been scored
\* in a store that holds another session
C22_Witness ==
    /\ Scored
    /\ Cardinality(DOMAIN active_sessions) = 2
    /\ ScoredSession.user_answers # <<>>
    /\ ScoredSession.current_question_index # 0

----------------------------------------------------------------------------
(* calculate_score: the numbers of the result *)

\* what two results of one session must agree on: the counts, the percentage, the
\* pass flag, the entries of every topic in their order, and the weak areas
Verdict(result) ==
    <<result.total_questions, result.correct_answers, result.score_percentage,
      result.passed, result.topic_performance, result.weak_areas>>

ScoreOfCounts ==
    IF Result.total_questions = 0
    THEN Result.score_percentage = 0
    ELSE LET gap == Result.score_percentage * Result.total_questions
                        - Result.correct_answers * 1000
         IN  2 * gap <= Result.total_questions /\ -2 * gap <= Result.total_questions

\* passed is true exactly when correct / total * 100 (0 without questions) is at
\* least the passing score
PassedAtThreshold ==
    Result.passed <=>
        IF Result.total_questions = 0
        THEN 0 >= config.passing_score_percentage
        ELSE Result.correct_answers * 1000 >=
                config.passing_score_percentage * Result.total_questions

\* every question of the scored session is answered correctly
AllCorrect ==
    \A i \in DOMAIN ScoredSession.questions :
        \E k \in AnswersFor(ScoredSession, ScoredSession.questions[i]) :
            Range(ScoredSession.user_answers[k].selected_answers)
                = Range(ScoredSession.questions[i].correct_answers)

----------------------------------------------------------------------------
(* calculate_score: the topics *)

\* the questions of the scored session that are of the topic
QuestionsOf(topic) ==
    {i \in DOMAIN ScoredSession.questions : ScoredSession.questions[i].topic = topic}

RECURSIVE SumOf(_, _)
\* the sum of a field over the entries of topic_performance
SumOf(entries, field) ==
    IF entries = <<>> THEN 0
    ELSE entries[1][field] + SumOf(Tail(entries), field)

\* C25: topic_performance of a result has one entry for each topic that occurs
\* among the session's questions and none for another topic; the entry's
\* total_questions and correct_answers are the number of the session's questions
\* of the topic and the number of those scored correct, so that the entries sum
\* to the result's total_questions and correct_answers.
C25_TopicEntries ==
    Scored =>
        LET entries == Result.topic_performance
        IN  /\ {entries[k].topic : k \in DOMAIN entries} =
                  {ScoredSession.questions[i].topic : i \in DOMAIN ScoredSession.questions}
            /\ \A k, l \in DOMAIN entries : entries[k].topic = entries[l].topic => k = l
            /\ \A k \in DOMAIN entries :
                  /\ entries[k].total_questions = Cardinality(QuestionsOf(entries[k].topic))
                  /\ entries[k].correct_answers =
                        Cardinality({i \in QuestionsOf(entries[k].topic) :
                                        Result.question_details[i].is_correct})
            /\ SumOf(entries, "total_questions") = Result.total_questions
            /\ SumOf(entries, "correct_answers") = Result.correct_answers

\* a session of four questions in three topics has been scored, one of its two
\* DataRaptors questions correct and the other not answered
C25_Witness ==
    /\ Scored
    /\ Len(Result.topic_performance) = 3
    /\ \E k \in DOMAIN Result.topic_performance :
          /\ Result.topic_performance[k].topic = "DataRaptors"
          /\ Result.topic_performance[k].total_questions = 2
          /\ Result.topic_performance[k].correct_answers = 1
    /\ \E i \in QuestionsOf("DataRaptors") :
          AnswersFor(ScoredSession, ScoredSession.questions[i]) = {}

FirstMet(topic) ==
    CHOOSE i \in QuestionsOf(topic) : \A j \in QuestionsOf(topic) : i <= j

\* C27: topic_performance of a result is in ascending order of percentage, and
\* topics of equal percentage are in the order in which the loop over the
\* session's questions first meets them.
C27_AscendingStable ==
    Scored =>
        \A k, l \in DOMAIN Result.topic_performance :
            k < l =>
                LET a == Result.topic_performance[k]
                    b == Result.topic_performance[l]
                IN  /\ a.percentage <= b.percentage
                    /\ a.percentage = b.percentage => FirstMet(a.topic) < FirstMet(b.topic)

\* three topics have been scored: the one met first has the highest percentage and
\* comes last, the two others are equal and keep their order
C27_Witness ==
    /\ Scored
    /\ Len(Result.topic_performance) = 3
    /\ Result.topic_performance[3].topic = ScoredSession.questions[1].topic
    /\ Result.topic_performance[1].percentage = Result.topic_performance[2].percentage
    /\ Result.topic_performance[2].percentage < Result.topic_performance[3].percentage

\* C28: weak_areas of a result lists exactly the topics whose entry of
\* topic_performance is flagged weak, in the order in which those topics come in
\* topic_performance, which is ascending in percentage.
C28_WeakInResultOrder ==
    Scored =>
        LET weak == SelectSeq(Result.topic_performance, LAMBDA t : t.is_weak_area)
        IN  Result.weak_areas = [k \in DOMAIN weak |-> weak[k].topic]

----------------------------------------------------------------------------
(* calculate_score and the disk; the questions of a session *)

\* C29: for a session of the store calculate_score returns the result it
\* computed whatever fails in _save_result, the making of the results directory
\* as well as the opening or writing of the file: no failure of the disk makes
\* calculate_score fail.
C29_ResultDespiteDisk ==
    (last.op = "calculate_score" /\ last.session_id \in DOMAIN active_sessions) =>
        /\ ~last.raised
        /\ last.ret = Some(ExamResult(last.session_id, ScoredSession))

\* the question of the file that the session's question was loaded from
Loaded(exam_id, question) ==
    LET bank == files[exams[exam_id].questions_file]
    IN  bank[CHOOSE i \in DOMAIN bank : bank[i].id = question.id]

\* C30: a create_exam_session, with randomize_answers on, changes no question of
\* a session the store already holds, neither the questions nor the order of
\* their answers nor their correct_answers, and no question file; and the
\* questions of the session it makes have the answers of the file's questions in
\* some order, with the same correct_answers.
C30_Snapshot ==
    [][(last'.op = "create_exam_session" /\ last'.ret \in SessionIds) =>
          /\ \A s \in DOMAIN active_sessions :
                active_sessions'[s].questions = active_sessions[s].questions
          /\ files' = files
          /\ \A i \in DOMAIN active_sessions'[last'.ret].questions :
                LET question == active_sessions'[last'.ret].questions[i]
                    loaded == Loaded(last'.exam_id, question)
                IN  /\ Len(question.answers) = Len(loaded.answers)
                    /\ Range(question.answers) = Range(loaded.answers)
                    /\ question.correct_answers = loaded.correct_answers
                    /\ question.topic = loaded.topic
    ]_vars

\* with randomize_answers on, the store holds two sessions with the same question,
\* its answers in one order in the one and in another order in the other, and the
\* later session has been made after the earlier
C30_Witness ==
    /\ config.randomize_answers
    /\ last.op = "create_exam_session"
    /\ last.ret \in SessionIds
    /\ \E s \in DOMAIN active_sessions \ {last.ret} :
          \E i \in DOMAIN active_sessions[s].questions,
             j \in DOMAIN active_sessions[last.ret].questions :
                /\ active_sessions[s].questions[i].id =
                      active_sessions[last.ret].questions[j].id
                /\ active_sessions[s].questions[i].answers #
                      active_sessions[last.ret].questions[j].answers

----------------------------------------------------------------------------
(* Expired for good; what submit_answer and navigate_to_question leave alone *)

\* C31: at any instant, a session for which is_session_expired returns True has
\* get_remaining_time 0; and as no call changes start_time or duration_minutes,
\* is_session_expired returns True for it at every later instant, whatever calls
\* are made.
C31_ExpiredForGood ==
    [][\A s \in DOMAIN active_sessions :
          is_session_expired(s) =>
              /\ get_remaining_time(s) = Some(0)
              /\ is_session_expired(s)'
              /\ get_remaining_time(s)' = Some(0)]_vars

\* get_remaining_time has returned 0 for a session that had expired by more than a
\* second when it was asked
C31_Witness ==
    /\ last.op = "get_remaining_time"
    /\ last.ret = Some(0)
    /\ HasDuration(last.session_id)
    /\ Elapsed(last.session_id) > Allowed(last.session_id) + TicksPerSecond
    /\ is_session_expired(last.session_id)

\* the fields of a session but the one named
Others(session, field) ==
    [f \in DOMAIN session \ {field} |-> session[f]]

\* C32: a submit_answer that returns True changes only the user_answers of its
\* session, a navigate_to_question that returns True only the
\* current_question_index of its session: the questions, start time, duration and
\* mode, the other of the two fields, and every other session stay as they are.
C32_OneFieldChanges ==
    [][(last'.op \in {"submit_answer", "navigate_to_question"} /\ last'.ret) =>
          /\ DOMAIN active_sessions' = DOMAIN active_sessions
          /\ \A s \in DOMAIN active_sessions \ {last'.session_id} :
                active_sessions'[s] = active_sessions[s]
          /\ Others(active_sessions'[last'.session_id],
                    IF last'.op = "submit_answer" THEN "user_answers"
                    ELSE "current_question_index")
               = Others(active_sessions[last'.session_id],
                        IF last'.op = "submit_answer" THEN "user_answers"
                        ELSE "current_question_index")]_vars

\* an answer has been stored in a session that is at its second question, in a
\* store that holds another session
C32_Witness ==
    /\ last.op = "submit_answer"
    /\ last.ret
    /\ Cardinality(DOMAIN active_sessions) = 2
    /\ active_sessions[last.session_id].current_question_index = 1
    /\ active_sessions[last.session_id].user_answers # <<>>

====
